---- MODULE Spec2Model ----
(***************************************************************************)
(* A model of the site indexer of src/src/index.ts (lines 1-527, the       *)
(* full-featured SiteIndexer with its Limiter).  Strings are TLA+ strings; *)
(* string functions of the source (split, join, trim, startsWith, ...) are *)
(* computed character by character.                                        *)
(***************************************************************************)
EXTENDS Naturals, Sequences, FiniteSets, TLC

VARIABLES
    baseUrl,        \* SiteIndexer.baseUrl
    baseDomain,     \* SiteIndexer.baseDomain
    basePath,       \* SiteIndexer.basePath
    startUrl,       \* the <url> argument of `crawl`
    visited,        \* SiteIndexer.visited
    queue,          \* SiteIndexer.queue
    referrerMap,    \* SiteIndexer.referrerMap
    failedPages,    \* SiteIndexer.failedPages
    successfulPages,\* SiteIndexer.successfulPages
    running,        \* Limiter.running
    contentParts,   \* start(): contentParts, each block with the URL it came from
    pc,             \* where start() stands
    batch,          \* start(): the batch of the current wave
    tasks,          \* start(): the promises of the current wave, by batch position
    dirExists,      \* file system: output/<baseDomain> exists
    files,          \* file system: path -> content written
    fetchLog,       \* history: the URLs given to processPage, in call order
    edges,          \* history: <<page, link>> for the in-scope links found on fetched pages
    completed,      \* history: the URLs whose task returned a page, in completion order
    fnArg,          \* the argument of the function under study
    fnRet,          \* its result
    fnPc,           \* how often it has been applied
    genFiles,       \* generateLlmsFromExisting(): files
    genParts,       \* generateLlmsFromExisting(): contentParts
    genIndex,       \* generateLlmsFromExisting(): the files processed so far
    limMax,         \* Limiter.maxConcurrent
    callers,        \* the calls of Limiter.add, each with the place it stands at
    waitLog         \* history: the calls that had to wait, in the order they began to

ctxVars == <<baseUrl, baseDomain, basePath, startUrl>>

crawlVars == <<visited, queue, referrerMap, failedPages, successfulPages, running,
               contentParts, pc, batch, tasks, dirExists, files, fetchLog, edges,
               completed>>

fnVars == <<fnArg, fnRet, fnPc>>

genVars == <<genFiles, genParts, genIndex>>

limVars == <<limMax, callers, waitLog>>

vars == <<ctxVars, crawlVars, fnVars, genVars, limVars>>

----------------------------------------------------------------------------
(* String primitives of JavaScript used by the source.                     *)

Char(s, i) == SubSeq(s, i, i)

StartsWith(s, p) == Len(s) >= Len(p) /\ SubSeq(s, 1, Len(p)) = p

EndsWith(s, p) == Len(s) >= Len(p) /\ SubSeq(s, Len(s) - Len(p) + 1, Len(s)) = p

\* String.prototype.indexOf, 1-based; 0 when p does not occur in s. (Here and
\* in the recursive operators, the arguments are first bound to their values,
\* as a CHOOSE over a one-element set, so that each is evaluated once.)
IndexOf(s, p) ==
    CHOOSE r \in
        { LET hits == {i \in 1..Len(sv) :
                          i + Len(pv) - 1 <= Len(sv) /\ SubSeq(sv, i, i + Len(pv) - 1) = pv}
          IN  IF hits = {} THEN 0 ELSE CHOOSE i \in hits : \A j \in hits : i <= j
          : sv \in {s}, pv \in {p} } : TRUE

Includes(s, p) == IndexOf(s, p) # 0

\* String.prototype.split(sep): "" splits to [""].
RECURSIVE Split(_, _)
Split(s, sep) ==
    CHOOSE r \in
        { LET i == IndexOf(sv, sep)
          IN  IF i = 0 THEN <<sv>>
              ELSE <<SubSeq(sv, 1, i - 1)>> \o Split(SubSeq(sv, i + Len(sep), Len(sv)), sep)
          : sv \in {s} } : TRUE

\* Array.prototype.join(sep).
RECURSIVE Join(_, _)
Join(parts, sep) ==
    CHOOSE r \in
        { IF Len(pv) = 0 THEN ""
          ELSE IF Len(pv) = 1 THEN pv[1]
          ELSE pv[1] \o sep \o Join(Tail(pv), sep)
          : pv \in {parts} } : TRUE

\* Array.prototype.filter(Boolean) on an array of strings.
FilterBoolean(parts) == SelectSeq(parts, LAMBDA p : p # "")

\* Array.prototype.slice(from) with from >= 0 (0-based), and slice(0, to).
SliceFrom(parts, from) == SubSeq(parts, from + 1, Len(parts))
SliceTo(parts, to) == SubSeq(parts, 1, IF to < Len(parts) THEN to ELSE Len(parts))

\* Array.prototype.slice(-n) for n >= 1.
SliceLast(parts, n) ==
    SubSeq(parts, (IF n < Len(parts) THEN Len(parts) - n ELSE 0) + 1, Len(parts))

\* Array.prototype.indexOf, 0-based; -1 is never asked for (x is in parts).
ArrayIndexOf(parts, x) ==
    (CHOOSE i \in 1..Len(parts) : parts[i] = x /\ \A j \in 1..(i - 1) : parts[j] # x) - 1

NL == "\n"

IsSpace(c) == c \in {" ", NL, "\t", "\r"}

\* String.prototype.trim.
RECURSIVE TrimStart(_)
TrimStart(s) ==
    CHOOSE r \in
        { IF Len(sv) > 0 /\ IsSpace(Char(sv, 1)) THEN TrimStart(SubSeq(sv, 2, Len(sv))) ELSE sv
          : sv \in {s} } : TRUE

RECURSIVE TrimEnd(_)
TrimEnd(s) ==
    CHOOSE r \in
        { IF Len(sv) > 0 /\ IsSpace(Char(sv, Len(sv)))
          THEN TrimEnd(SubSeq(sv, 1, Len(sv) - 1)) ELSE sv
          : sv \in {s} } : TRUE

Trim(s) == TrimEnd(TrimStart(s))

IsDigit(c) == c \in {"0", "1", "2", "3", "4", "5", "6", "7", "8", "9"}

----------------------------------------------------------------------------
(* url-parse: protocol, host and pathname of a URL string, and toString.   *)

\* new URLParse(url): an absolute URL "<scheme>://<host><path>" parses to its
\* scheme with the colon, its host and its path ("/" when empty); a string with
\* no "//" authority has an empty host.
URLParse(url) ==
    LET a == IndexOf(url, "://")
    IN  IF a = 0
        THEN LET c == IndexOf(url, ":")
             IN  IF c # 0 /\ IndexOf(url, "/") \in {0} \cup (c..Len(url)) /\ c > 1
                 THEN [protocol |-> SubSeq(url, 1, c), slashes |-> FALSE, host |-> "",
                       pathname |-> SubSeq(url, c + 1, Len(url))]
                 ELSE [protocol |-> "", slashes |-> FALSE, host |-> "", pathname |-> url]
        ELSE LET rest == SubSeq(url, a + 3, Len(url))
                 p    == IndexOf(rest, "/")
             IN  [protocol |-> SubSeq(url, 1, a),
                  slashes  |-> TRUE,
                  host     |-> IF p = 0 THEN rest ELSE SubSeq(rest, 1, p - 1),
                  pathname |-> IF p = 0 THEN "/" ELSE SubSeq(rest, p, Len(rest))]

\* parsedUrl.set("pathname", p)
SetPathname(parsed, p) == [parsed EXCEPT !.pathname = p]

\* parsedUrl.toString()
UrlToString(parsed) ==
    parsed.protocol \o (IF parsed.slashes THEN "//" ELSE "") \o parsed.host \o parsed.pathname

----------------------------------------------------------------------------
(* SiteIndexer constructor: the crawl context derived from the start URL.  *)

CtorBaseUrl(u) == URLParse(u).protocol \o "//" \o URLParse(u).host

CtorBaseDomain(u) == URLParse(u).host

CtorBasePath(u) ==
    LET p == URLParse(u).pathname IN IF EndsWith(p, "/") THEN p ELSE p \o "/"

Constructed(u) ==
    /\ startUrl = u
    /\ baseUrl = CtorBaseUrl(u)
    /\ baseDomain = CtorBaseDomain(u)
    /\ basePath = CtorBasePath(u)

----------------------------------------------------------------------------
(* SiteIndexer.normalizeUrl                                                *)

\* /^v\d|^\d{4}/.test(part)
IsVersionLike(part) ==
    \/ Len(part) >= 2 /\ Char(part, 1) = "v" /\ IsDigit(Char(part, 2))
    \/ Len(part) >= 4 /\ \A i \in 1..4 : IsDigit(Char(part, i))

\* urlPathParts.slice(1).find(isVersionLike): the index (1-based, in the whole
\* array) of the first version-like part after the first one, 0 when none.
FindVersion(parts) ==
    LET hits == {i \in 2..Len(parts) : IsVersionLike(parts[i])}
    IN  IF hits = {} THEN 0 ELSE CHOOSE i \in hits : \A j \in hits : i <= j

\* parts[0], undefined (here <<>>) for an empty array
First(parts) == IF Len(parts) = 0 THEN <<>> ELSE <<parts[1]>>

\* the path the no-version branch builds (lines 161-164 and 195-197)
ContextPath(urlPathParts) == basePath \o Join(SliceFrom(urlPathParts, 1), "/")

\* the path the version branch builds (lines 152-156)
VersionPath(urlPathParts, v) ==
    LET idx == ArrayIndexOf(urlPathParts, urlPathParts[v])
    IN  "/" \o Join(SliceTo(urlPathParts, idx + 1), "/") \o "/"
            \o Join(SliceFrom(urlPathParts, idx + 1), "/")

\* new URL(url, fullBasePath).toString(): a reference with a scheme of its own
\* stands for itself; a relative one without query or dot segments is the
\* base's directory followed by it.
ResolveRelative(url, fullBasePath) ==
    LET parsed == URLParse(fullBasePath)
        segs   == Split(parsed.pathname, "/")
        dir    == Join(SubSeq(segs, 1, Len(segs) - 1), "/") \o "/"
    IN  IF URLParse(url).protocol # "" THEN url
        ELSE parsed.protocol \o "//" \o parsed.host \o dir \o url

normalizeUrl(href) ==
    LET url == Split(href, "#")[1]
        basePathParts == FilterBoolean(Split(basePath, "/"))
    IN  IF StartsWith(url, "http://") \/ StartsWith(url, "https://")
        THEN LET parsedUrl == URLParse(url)
                 urlPathParts == FilterBoolean(Split(parsedUrl.pathname, "/"))
             IN  IF parsedUrl.host = baseDomain /\ First(urlPathParts) = First(basePathParts)
                 THEN LET v == FindVersion(urlPathParts)
                      IN  IF v # 0
                          THEN UrlToString(SetPathname(parsedUrl, VersionPath(urlPathParts, v)))
                          ELSE UrlToString(SetPathname(parsedUrl, ContextPath(urlPathParts)))
                 ELSE url
        ELSE IF StartsWith(url, "//")
        THEN URLParse(baseUrl).protocol \o url
        ELSE IF StartsWith(url, "/")
        THEN LET urlPathParts == FilterBoolean(Split(url, "/"))
             IN  IF First(urlPathParts) = First(basePathParts)
                 THEN IF FindVersion(urlPathParts) # 0
                      THEN baseUrl \o url
                      ELSE baseUrl \o ContextPath(urlPathParts)
                 ELSE baseUrl \o url
        ELSE ResolveRelative(url, baseUrl \o basePath)

----------------------------------------------------------------------------
(* SiteIndexer.isValidUrl                                                  *)

\* an isValidUrl that tests the host's text: host.endsWith(baseDomain)
isValidUrlByText(href) == EndsWith(URLParse(Split(href, "#")[1]).host, baseDomain)

isValidUrl(href) ==
    LET url == Split(href, "#")[1]
        parsed == URLParse(url)
        baseDomainParts == Split(baseDomain, ".")
        urlDomainParts == Split(parsed.host, ".")
    IN  IF Len(baseDomainParts) <= Len(urlDomainParts)
        THEN Join(SliceLast(urlDomainParts, Len(baseDomainParts)), ".") = baseDomain
        ELSE FALSE

----------------------------------------------------------------------------
(* SiteIndexer.extractLinks                                                *)

\* the href test without its first test, !href.startsWith("#")
IsNavigableNoFragmentTest(href) ==
    /\ href # ""
    /\ ~StartsWith(href, "mailto:")
    /\ ~StartsWith(href, "tel:")
    /\ ~Includes(href, "javascript:")

\* the href test of lines 236-242
IsNavigable(href) ==
    /\ href # ""
    /\ ~StartsWith(href, "#")
    /\ ~StartsWith(href, "mailto:")
    /\ ~StartsWith(href, "tel:")
    /\ ~Includes(href, "javascript:")

\* [...new Set(links)]: first occurrences, in order
RECURSIVE Dedup(_)
Dedup(links) ==
    CHOOSE r \in
        { IF Len(lv) = 0 THEN <<>>
          ELSE CHOOSE d \in
                   { IF \E i \in 1..Len(init) : init[i] = lv[Len(lv)]
                     THEN init ELSE Append(init, lv[Len(lv)])
                     : init \in {Dedup(SubSeq(lv, 1, Len(lv) - 1))} } : TRUE
          : lv \in {links} } : TRUE

\* an extractLinks without the isValidUrl test of line 247
extractLinksNoValidTest(hrefs) ==
    LET navigable  == SelectSeq(hrefs, IsNavigable)
        normalized == [i \in 1..Len(navigable) |-> normalizeUrl(navigable[i])]
    IN  Dedup(SelectSeq(normalized, LAMBDA n : n \notin visited))

\* hrefs: the href attributes of the page's anchors, in document order
extractLinks(hrefs) ==
    LET navigable  == SelectSeq(hrefs, IsNavigable)
        normalized == [i \in 1..Len(navigable) |-> normalizeUrl(navigable[i])]
    IN  Dedup(SelectSeq(normalized, LAMBDA n : isValidUrl(n) /\ n \notin visited))

----------------------------------------------------------------------------
(* SiteIndexer.getOutputFilePath and SiteIndexer.cleanContent              *)

getOutputFilePath(url) ==
    LET p0 == URLParse(url).pathname
        p1 == IF p0 = "/" THEN "/index" ELSE p0
        p2 == IF EndsWith(p1, ".md") THEN p1 ELSE p1 \o ".md"
    IN  "output/" \o baseDomain \o p2

IsMarker(line) == StartsWith(line, "#") \/ StartsWith(line, "*") \/ StartsWith(line, "-")

\* a filter callback without the tests of the next line (lines 345-347)
KeepLineNoNextTest(arr, i) ==
    \/ arr[i] # ""
    \/ /\ i > 1
       /\ i < Len(arr)
       /\ arr[i - 1] # ""
       /\ arr[i + 1] # ""
       /\ ~IsMarker(arr[i - 1])

\* the filter callback of lines 332-351 on the array of trimmed lines
KeepLine(arr, i) ==
    \/ arr[i] # ""
    \/ /\ i > 1
       /\ i < Len(arr)
       /\ arr[i - 1] # ""
       /\ arr[i + 1] # ""
       /\ ~IsMarker(arr[i - 1])
       /\ ~IsMarker(arr[i + 1])

\* arr.filter(callback) of lines 332-351: the callback sees the index and arr
KeptLines(arr) ==
    LET idx == SelectSeq([i \in 1..Len(arr) |-> i], LAMBDA i : KeepLine(arr, i))
    IN  [k \in 1..Len(idx) |-> arr[idx[k]]]

\* a cleanContent that filters the lines before it trims them
cleanContentFilterFirst(content) ==
    LET lines == Split(Trim(content), NL)
        kept  == KeptLines(lines)
    IN  Join([i \in 1..Len(kept) |-> Trim(kept[i])], NL)

cleanContent(content) ==
    LET lines == Split(Trim(content), NL)
        arr   == [i \in 1..Len(lines) |-> Trim(lines[i])]
    IN  Join(KeptLines(arr), NL)

----------------------------------------------------------------------------
(* The environment of a crawl: what a fetch can answer.                    *)

\* error.message of a failed axios.get or of an unparsable body
FetchErrors == {"Network Error", "Request failed with status code 404"}

\* the anchors (href attributes, in document order) a fetched page can hold
CrawlHrefLists ==
    { <<>>,
      <<"/a", "/b">>,
      <<"/c">>,
      <<"https://x.test/c", "/b", "https://other.test/c">>,
      <<"#top", "/a">> }

\* a fetched page: its anchors, its <title> text and the Markdown of its body
CrawlBodies ==
    { [hrefs |-> h, title |-> IF Len(h) = 1 THEN "" ELSE "T", content |-> "# H\n\ntext\n\n\nmore "] :
        h \in CrawlHrefLists }

\* a page with the given anchors
PageWith(h) == [hrefs |-> h, title |-> "T", content |-> "text"]

\* Two more sites. On s.test the home page links to /a and to the page of the
\* same path on a subdomain; those two pages link to /c and to themselves, and
\* /c links back to /a. On w.test the home page links to HubLinks pages that
\* all answer 404.
HubLinks == 6

DigitString == <<"1", "2", "3", "4", "5", "6", "7", "8", "9">>

HubHrefs == [k \in 1..HubLinks |-> "/w" \o DigitString[k]]

\* what axios.get(url) and the parsing of lines 273-281 can give for a URL
PageBodies(url) ==
    LET host == URLParse(url).host
    IN  IF host \in {"s.test", "sub.s.test"}
        THEN IF url = "https://s.test"
             THEN {PageWith(<<"/a", "https://sub.s.test/a">>)}
             ELSE IF EndsWith(url, "/a")
             THEN {PageWith(<<"/c", "/a">>)}
             ELSE {PageWith(<<"/a">>)}
        ELSE IF host = "w.test"
        THEN IF url = "https://w.test" THEN {PageWith(HubHrefs)} ELSE {}
        ELSE CrawlBodies

\* the messages axios.get(url) can fail with
PageErrors(url) ==
    IF URLParse(url).host = "w.test" /\ url # "https://w.test"
    THEN {"Request failed with status code 404"}
    ELSE FetchErrors

\* the start URLs tried
StartUrls == {"https://x.test/", "https://x.test/docs/"}

----------------------------------------------------------------------------
(* Limiter(5) and SiteIndexer.start                                        *)

maxConcurrent == 5

BatchCap == 5

Min(a, b) == IF a < b THEN a ELSE b

NewTask(url, st) == [st |-> st, url |-> url, hrefs |-> <<>>, title |-> "", content |-> ""]

\* a start() that forgets the visited test of line 367
ShouldSkipNever(vis, url) == FALSE

\* line 367: the entry is dropped when its URL is already in visited
ShouldSkip(vis, url) == url \in vis

\* a callback that leaves visited.add to the task, after its fetch
DispatchOneUnmarked(acc, url) ==
    IF ShouldSkip(acc.visited, url)
    THEN [acc EXCEPT !.tasks = Append(@, NewTask(url, "skipped"))]
    ELSE IF acc.running >= maxConcurrent
    THEN [acc EXCEPT !.tasks = Append(@, NewTask(url, "waiting"))]
    ELSE [visited  |-> acc.visited,
          running  |-> acc.running + 1,
          tasks    |-> Append(acc.tasks, NewTask(url, "fetching")),
          fetchLog |-> Append(acc.fetchLog, url)]

\* batch.map's callback (lines 366-381) on one entry, up to the first await of
\* limiter.add and of processPage; acc carries visited, running, the promises
\* made so far and the log of processPage calls.
DispatchOne(acc, url) ==
    IF ShouldSkip(acc.visited, url)
    THEN [acc EXCEPT !.tasks = Append(@, NewTask(url, "skipped"))]
    ELSE IF acc.running >= maxConcurrent
    THEN [acc EXCEPT !.visited = @ \cup {url},
                     !.tasks = Append(@, NewTask(url, "waiting"))]
    ELSE [visited  |-> acc.visited \cup {url},
          running  |-> acc.running + 1,
          tasks    |-> Append(acc.tasks, NewTask(url, "fetching")),
          fetchLog |-> Append(acc.fetchLog, url)]

RECURSIVE DispatchAll(_, _)
DispatchAll(acc, urls) ==
    CHOOSE r \in
        { IF Len(uv) = 0 THEN av
          ELSE DispatchAll(DispatchOne(av, Head(uv)), Tail(uv))
          : av \in {acc}, uv \in {urls} } : TRUE

\* a start() that reads the batch with slice and leaves it in the queue
RestOfQueueKept(q, n) == q

\* line 363: splice(0, n) removes the batch from the queue
RestOfQueue(q, n) == SubSeq(q, n + 1, Len(q))

\* a loop that drains the whole queue into one batch
BatchSizeAll(q) == Len(q)

\* line 362: a batch holds at most five entries
BatchSize(q) == Min(BatchCap, Len(q))

\* One turn of the while loop of lines 361-382 on queue q, up to its await:
\* the batch is spliced off and dispatched; with an empty queue the loop ends
\* and the corpus write of line 401 is awaited.
LoopTurn(q) ==
    IF Len(q) > 0
    THEN LET batchSize == BatchSize(q)
             b == SubSeq(q, 1, batchSize)
             d == DispatchAll([visited |-> visited, running |-> running,
                               tasks |-> <<>>, fetchLog |-> fetchLog], b)
         IN  /\ queue' = RestOfQueue(q, batchSize)
             /\ batch' = b
             /\ tasks' = d.tasks
             /\ visited' = d.visited
             /\ running' = d.running
             /\ fetchLog' = d.fetchLog
             /\ pc' = "wave"
    ELSE /\ queue' = q
         /\ batch' = <<>>
         /\ tasks' = <<>>
         /\ pc' = "writeCorpus"
         /\ UNCHANGED <<visited, running, fetchLog>>

\* start(), lines 355-382, up to the first await
Start ==
    /\ pc = "init"
    /\ LoopTurn(Append(queue, baseUrl))
    /\ UNCHANGED <<ctxVars, fnVars, genVars, limVars, referrerMap, failedPages, successfulPages,
                   contentParts, dirExists, files, edges, completed>>

Slots == 1..Len(tasks)

\* the tasks of a wave go on while start() awaits them; after start() threw
\* they go on for as long as the process lives
TasksLive == pc \in {"wave", "aborted"}

\* processPage, lines 273-282: the response arrived and parsed
FetchSucceeds(i) ==
    /\ TasksLive
    /\ tasks[i].st = "fetching"
    /\ \E body \in PageBodies(tasks[i].url) :
         tasks' = [tasks EXCEPT ![i] =
                     [st |-> "okDelay", url |-> @.url, hrefs |-> body.hrefs,
                      title |-> IF body.title # "" THEN body.title ELSE @.url,
                      content |-> body.content]]
    /\ UNCHANGED <<ctxVars, fnVars, genVars, limVars, visited, queue, referrerMap, failedPages,
                   successfulPages, running, contentParts, pc, batch, dirExists,
                   files, fetchLog, edges, completed>>

\* a processPage whose catch does not return: the failure is recorded and the
\* links of the page are extracted all the same
FetchFailsAndGoesOn(i) ==
    /\ TasksLive
    /\ tasks[i].st = "fetching"
    /\ \E msg \in PageErrors(tasks[i].url) :
         failedPages' = Append(failedPages,
             [url |-> tasks[i].url, reason |-> msg,
              referrer |-> IF tasks[i].url \in DOMAIN referrerMap
                           THEN referrerMap[tasks[i].url] ELSE "Initial URL"])
    /\ tasks' = [tasks EXCEPT ![i] = [st |-> "okDelay", url |-> @.url, hrefs |-> <<"/a", "/b">>,
                                      title |-> @.url, content |-> ""]]
    /\ UNCHANGED <<ctxVars, fnVars, genVars, limVars, visited, queue, referrerMap,
                   successfulPages, running, contentParts, pc, batch, dirExists, files,
                   fetchLog, edges, completed>>

\* processPage, lines 283-291: axios.get, cheerio.load or turndown threw
FetchFails(i) ==
    /\ TasksLive
    /\ tasks[i].st = "fetching"
    /\ \E msg \in PageErrors(tasks[i].url) :
         failedPages' = Append(failedPages,
             [url |-> tasks[i].url, reason |-> msg,
              referrer |-> IF tasks[i].url \in DOMAIN referrerMap
                           THEN referrerMap[tasks[i].url] ELSE "Initial URL"])
    /\ tasks' = [tasks EXCEPT ![i].st = "failDelay"]
    /\ UNCHANGED <<ctxVars, fnVars, genVars, limVars, visited, queue, referrerMap, successfulPages,
                   running, contentParts, pc, batch, dirExists, files, fetchLog, edges, completed>>

\* a processPage that assigns the new links to the queue instead of pushing them
QueueAssign(q, newLinks) == newLinks

\* a processPage that pushes only the links the referrer map does not hold yet
QueuePushUnrecorded(q, newLinks) ==
    q \o SelectSeq(newLinks, LAMBDA l : l \notin DOMAIN referrerMap)

\* line 305: this.queue.push(...newLinks)
QueuePush(q, newLinks) == q \o newLinks

\* a processPage that sets the referrer of every new link, without the test
\* of line 301
SetReferrersAlways(map, newLinks, currentUrl) ==
    LET new == {newLinks[k] : k \in 1..Len(newLinks)}
    IN  [u \in DOMAIN map \cup new |-> IF u \in new THEN currentUrl ELSE map[u]]

\* lines 300-304: the first referrer of a link stays
SetReferrers(map, newLinks, currentUrl) ==
    LET new == {newLinks[k] : k \in 1..Len(newLinks)}
    IN  [u \in DOMAIN map \cup new |-> IF u \in DOMAIN map THEN map[u] ELSE currentUrl]

\* the in-scope links of a page, whether visited or not
InScopeLinks(hrefs) ==
    LET navigable == SelectSeq(hrefs, IsNavigable)
    IN  {n \in {normalizeUrl(navigable[k]) : k \in 1..Len(navigable)} : isValidUrl(n)}

\* A 100 ms timer fires and its task goes on to its next await:
\*  - the wait loop of Limiter.add (lines 47-52),
\*  - processPage after a failure (lines 291-292) and the finally of Limiter.add,
\*  - processPage after a success (lines 282, 295-309) up to fs.mkdir (line 376).
TimerFires(i) ==
    /\ TasksLive
    /\ tasks[i].st \in {"waiting", "failDelay", "okDelay"}
    /\ IF tasks[i].st = "waiting"
       THEN /\ running < maxConcurrent
            /\ running' = running + 1
            /\ fetchLog' = Append(fetchLog, tasks[i].url)
            /\ tasks' = [tasks EXCEPT ![i].st = "fetching"]
            /\ UNCHANGED <<queue, referrerMap, edges>>
       ELSE IF tasks[i].st = "failDelay"
       THEN /\ running' = running - 1
            /\ tasks' = [tasks EXCEPT ![i].st = "null"]
            /\ UNCHANGED <<queue, referrerMap, edges, fetchLog>>
       ELSE LET newLinks == extractLinks(tasks[i].hrefs)
            IN  /\ referrerMap' = SetReferrers(referrerMap, newLinks, tasks[i].url)
                /\ queue' = QueuePush(queue, newLinks)
                /\ edges' = edges \cup {<<tasks[i].url, n>> : n \in InScopeLinks(tasks[i].hrefs)}
                /\ tasks' = [tasks EXCEPT ![i].st = "mkdir"]
                /\ UNCHANGED <<running, fetchLog>>
    /\ UNCHANGED <<ctxVars, fnVars, genVars, limVars, visited, failedPages, successfulPages,
                   contentParts, pc, batch, dirExists, files, completed>>

\* line 376: fs.mkdir(dirname, {recursive: true}) succeeded
MkdirSucceeds(i) ==
    /\ TasksLive
    /\ tasks[i].st = "mkdir"
    /\ dirExists' = TRUE
    /\ tasks' = [tasks EXCEPT ![i].st = "writing"]
    /\ UNCHANGED <<ctxVars, fnVars, genVars, limVars, visited, queue, referrerMap, failedPages,
                   successfulPages, running, contentParts, pc, batch, files,
                   fetchLog, edges, completed>>

\* line 377: fs.writeFile(outputPath, content) succeeded; the task returns its
\* pageData through the finally of Limiter.add (line 54)
WriteSucceeds(i) ==
    /\ TasksLive
    /\ tasks[i].st = "writing"
    /\ LET path == getOutputFilePath(tasks[i].url)
       IN  files' = [f \in DOMAIN files \cup {path} |->
                        IF f = path THEN tasks[i].content ELSE files[f]]
    /\ running' = running - 1
    /\ tasks' = [tasks EXCEPT ![i].st = "page"]
    /\ completed' = Append(completed, tasks[i].url)
    /\ UNCHANGED <<ctxVars, fnVars, genVars, limVars, visited, queue, referrerMap, failedPages,
                   successfulPages, contentParts, pc, batch, dirExists, fetchLog, edges>>

\* lines 376-377 threw: nothing catches it, the finally of Limiter.add frees
\* the slot, the promise rejects, Promise.all rejects and start() throws
PageWriteFails(i) ==
    /\ TasksLive
    /\ tasks[i].st \in {"mkdir", "writing"}
    /\ running' = running - 1
    /\ tasks' = [tasks EXCEPT ![i].st = "rejected"]
    /\ pc' = "aborted"
    /\ UNCHANGED <<ctxVars, fnVars, genVars, limVars, visited, queue, referrerMap, failedPages,
                   successfulPages, contentParts, batch, dirExists, files,
                   fetchLog, edges, completed>>

\* lines 384-391: the blocks of the wave's results, in the order of the
\* results array, which is the order of the batch
Block(t) == [url |-> t.url, text |-> "# " \o t.title \o "\n\n" \o cleanContent(t.content)]

\* a start() whose tasks push their block themselves, as they complete
CollectByCompletion(ts) ==
    LET urls  == {ts[k].url : k \in {j \in 1..Len(ts) : ts[j].st = "page"}}
        order == SelectSeq(completed, LAMBDA u : u \in urls)
    IN  [k \in 1..Len(order) |->
            Block(ts[CHOOSE j \in 1..Len(ts) : ts[j].url = order[k] /\ ts[j].st = "page"])]

\* a start() without the test of line 385: a block for every task that ran
CollectEveryResult(ts) ==
    LET ran == SelectSeq(ts, LAMBDA t : t.st \in {"page", "null"})
    IN  [k \in 1..Len(ran) |-> Block(ran[k])]

CollectResults(ts) ==
    LET pages == SelectSeq(ts, LAMBDA t : t.st = "page")
    IN  [k \in 1..Len(pages) |-> Block(pages[k])]

\* the promise of a task is fulfilled: undefined of line 367, null or pageData
Fulfilled(t) == t.st \in {"skipped", "null", "page"}

\* a start() that goes on as soon as one promise of the wave is fulfilled
AnyFulfilled(ts) == \E k \in 1..Len(ts) : Fulfilled(ts[k])

\* line 365: Promise.all is fulfilled when every promise of the wave is
AllFulfilled(ts) == \A k \in 1..Len(ts) : Fulfilled(ts[k])

\* Promise.all resolved (line 365): the results are collected and the loop
\* takes its next turn
WaveEnds ==
    /\ pc = "wave"
    /\ AllFulfilled(tasks)
    /\ LET blocks == CollectResults(tasks)
       IN  /\ contentParts' = contentParts \o blocks
           /\ successfulPages' = successfulPages + Len(blocks)
    /\ LoopTurn(queue)
    /\ UNCHANGED <<ctxVars, fnVars, genVars, limVars, referrerMap, failedPages, dirExists, files, edges,
                   completed>>

CorpusPath == "output/" \o baseDomain \o "/llms-full.txt"

FailedUrlsPath == "output/" \o baseDomain \o "/failed-urls.json"

\* line 400
FinalContent == Trim(Join([k \in 1..Len(contentParts) |-> contentParts[k].text], "\n\n"))

\* line 401 succeeded: fs.writeFile creates the file in an existing directory
CorpusWritten ==
    /\ pc = "writeCorpus"
    /\ dirExists
    /\ files' = [f \in DOMAIN files \cup {CorpusPath} |->
                    IF f = CorpusPath THEN FinalContent ELSE files[f]]
    /\ pc' = IF Len(failedPages) > 0 THEN "writeFailedUrls" ELSE "done"
    /\ UNCHANGED <<ctxVars, fnVars, genVars, limVars, visited, queue, referrerMap, failedPages,
                   successfulPages, running, contentParts, batch, tasks, dirExists,
                   fetchLog, edges, completed>>

\* line 401 threw ENOENT: fs.writeFile does not create output/<baseDomain>
CorpusWriteFails ==
    /\ pc = "writeCorpus"
    /\ ~dirExists
    /\ pc' = "aborted"
    /\ UNCHANGED <<ctxVars, fnVars, genVars, limVars, visited, queue, referrerMap, failedPages,
                   successfulPages, running, contentParts, batch, tasks, dirExists,
                   files, fetchLog, edges, completed>>

\* lines 404-421: the failure report, one line per failed page
FailedUrlsWritten ==
    /\ pc = "writeFailedUrls"
    /\ LET report == Join([k \in 1..Len(failedPages) |-> failedPages[k].url], NL)
       IN  files' = [f \in DOMAIN files \cup {FailedUrlsPath} |->
                        IF f = FailedUrlsPath THEN report ELSE files[f]]
    /\ pc' = "done"
    /\ UNCHANGED <<ctxVars, fnVars, genVars, limVars, visited, queue, referrerMap, failedPages,
                   successfulPages, running, contentParts, batch, tasks, dirExists,
                   fetchLog, edges, completed>>

\* generateLlmsFromExisting has not been called
GenIdle ==
    /\ genFiles = <<>>
    /\ genParts = <<>>
    /\ genIndex = 0

\* the Limiter of line 125, before any call of add
LimIdle ==
    /\ limMax = maxConcurrent
    /\ callers = <<>>
    /\ waitLog = <<>>

\* the state after `new SiteIndexer(u)` (lines 64-87, 125), the output
\* directory there or not from an earlier run
InitAt(u) ==
    /\ Constructed(u)
    /\ visited = {}
    /\ queue = <<>>
    /\ referrerMap = <<>>
    /\ failedPages = <<>>
    /\ successfulPages = 0
    /\ running = 0
    /\ contentParts = <<>>
    /\ pc = "init"
    /\ batch = <<>>
    /\ tasks = <<>>
    /\ dirExists \in BOOLEAN
    /\ files = <<>>
    /\ fetchLog = <<>>
    /\ edges = {}
    /\ completed = <<>>
    /\ fnArg = ""
    /\ fnRet = <<>>
    /\ fnPc = 0
    /\ GenIdle
    /\ LimIdle

Init == \E u \in StartUrls : InitAt(u)

Next ==
    \/ Start
    \/ \E i \in Slots : FetchSucceeds(i)
    \/ \E i \in Slots : FetchFails(i)
    \/ \E i \in Slots : TimerFires(i)
    \/ \E i \in Slots : MkdirSucceeds(i)
    \/ \E i \in Slots : WriteSucceeds(i)
    \/ \E i \in Slots : PageWriteFails(i)
    \/ WaveEnds
    \/ CorpusWritten
    \/ CorpusWriteFails
    \/ FailedUrlsWritten

Spec == Init /\ [][Next]_vars

\* `crawl https://s.test/`
SpecPaths == InitAt("https://s.test/") /\ [][Next]_vars

\* The crawl of s.test in which every timer fires, every request and every
\* file system call completes and every fulfilled promise is taken up: the
\* event loop runs a callback whenever one is ready.
SpecLive == SpecPaths /\ WF_vars(Next)

\* `crawl https://w.test/`
SpecWide == InitAt("https://w.test/") /\ [][Next]_vars

----------------------------------------------------------------------------
(* Properties of a crawl, checked under Spec.                              *)

\* the position of a URL in a sequence of URLs, 0 when it is not there
Pos(seq, u) ==
    LET hits == {k \in 1..Len(seq) : seq[k] = u}
    IN  IF hits = {} THEN 0 ELSE CHOOSE k \in hits : \A j \in hits : k <= j

\* the while loop of start() has ended
CrawlEnded ==
    \/ pc \in {"writeCorpus", "writeFailedUrls", "done"}
    \/ pc = "aborted" /\ \A i \in Slots : tasks[i].st # "rejected"

\* C1: no URL is given to processPage more than once, and the number of
\* fetches issued is the size of the visited set, also when a URL sits in the
\* queue several times or twice in one batch.
NoUrlFetchedTwice ==
    /\ \A i, j \in 1..Len(fetchLog) : i # j => fetchLog[i] # fetchLog[j]
    /\ Len(fetchLog) = Cardinality(visited)

\* a batch held the same URL twice; the first was dispatched, the second dropped
DuplicateInBatch ==
    /\ pc = "wave"
    /\ \E i, j \in Slots :
         i < j /\ batch[i] = batch[j] /\ tasks[i].st # "skipped" /\ tasks[j].st = "skipped"

\* C2: the blocks of the corpus are in dispatch order (the order of the calls
\* of processPage: batch by batch, by position in the batch), whatever order
\* the fetches of a wave complete in.
BlocksInDispatchOrder ==
    \A i, j \in 1..Len(contentParts) :
        i < j => /\ Pos(fetchLog, contentParts[i].url) # 0
                 /\ Pos(fetchLog, contentParts[i].url) < Pos(fetchLog, contentParts[j].url)

\* two pages of the corpus completed in the order opposite to their dispatch
CompletedOutOfOrder ==
    \E i, j \in 1..Len(contentParts) :
        /\ i < j
        /\ Pos(completed, contentParts[j].url) < Pos(completed, contentParts[i].url)

\* C3: when the fetch of the seed fails with a network error and nothing else
\* was crawled, the run ends without raising, failedPages is the one record of
\* the seed with referrer "Initial URL", and llms-full.txt is written.
SeedFailureEndsNormally ==
    ( /\ pc \in {"done", "aborted"}
      /\ fetchLog = <<baseUrl>>
      /\ Len(failedPages) >= 1
      /\ failedPages[1].reason = "Network Error" )
    => /\ pc = "done"
       /\ failedPages = <<[url |-> baseUrl, reason |-> "Network Error",
                           referrer |-> "Initial URL"]>>
       /\ CorpusPath \in DOMAIN files

\* the URLs reachable from S over the links found on fetched pages
RECURSIVE ReachFrom(_)
ReachFrom(S) ==
    LET n == S \cup {e[2] : e \in {d \in edges : d[1] \in S}}
    IN  IF n = S THEN S ELSE ReachFrom(n)

\* C4: when the loop of start() has ended, every in-scope URL reachable from
\* the seed of the frontier (baseUrl) over links found on fetched pages is in
\* visited and was dispatched exactly once.
ReachableAreVisited ==
    CrawlEnded =>
        \A u \in ReachFrom({baseUrl}) :
            /\ u \in visited
            /\ Cardinality({k \in 1..Len(fetchLog) : fetchLog[k] = u}) = 1

\* the crawl ended with a URL that two pages of one wave linked to
FoundByTwoReferrers ==
    /\ CrawlEnded
    /\ pc = "done"
    /\ \E d, e \in edges : d[2] = e[2] /\ d[1] # e[1] /\ d[2] \notin {d[1], e[1], baseUrl}

\* two URL strings name the same resource: same scheme, host and path
SameResource(u, v) == URLParse(u) = URLParse(v)

\* C5: the first URL fetched is the URL given to `crawl`.
FirstFetchIsStartUrl ==
    Len(fetchLog) >= 1 => SameResource(fetchLog[1], startUrl)

\* C6: a failed write of one page's file does not abort the crawl.
PageWriteFailureDoesNotAbort ==
    (\E i \in Slots : tasks[i].st = "rejected") => pc # "aborted"

----------------------------------------------------------------------------
(* The functions of SiteIndexer on their own: each specification draws the *)
(* arguments in its initial states and applies the function.               *)

\* a SiteIndexer that is not crawling
CrawlIdle(at) ==
    /\ visited = {}
    /\ queue = <<>>
    /\ referrerMap = <<>>
    /\ failedPages = <<>>
    /\ successfulPages = 0
    /\ running = 0
    /\ contentParts = <<>>
    /\ pc = at
    /\ batch = <<>>
    /\ tasks = <<>>
    /\ dirExists = FALSE
    /\ files = <<>>
    /\ fetchLog = <<>>
    /\ edges = {}
    /\ completed = <<>>

\* the strings of at most n characters of chars
RECURSIVE StringsUpTo(_, _)
StringsUpTo(chars, n) ==
    IF n = 0 THEN {""}
    ELSE LET P == StringsUpTo(chars, n - 1) IN P \cup {s \o c : s \in P, c \in chars}

\* what the function is applied to: the argument, then its last result
LastValue == IF fnPc = 0 THEN fnArg ELSE fnRet[fnPc]

\* the function under study returned result; it is applied at most `times` times
Returned(at, times, result) ==
    /\ pc = at
    /\ fnPc < times
    /\ fnRet' = Append(fnRet, result)
    /\ fnPc' = fnPc + 1
    /\ UNCHANGED <<ctxVars, crawlVars, fnArg, genVars, limVars>>

----------------------------------------------------------------------------
(* isValidUrl                                                              *)

MaxHostLen == 4

HostChars == {"a", "b", "."}

Hosts == StringsUpTo(HostChars, MaxHostLen) \ {""}

InitValid ==
    /\ \E b \in Hosts : Constructed("https://" \o b \o "/")
    /\ \E h \in Hosts : fnArg = "https://" \o h \o "/p"
    /\ fnRet = <<>>
    /\ fnPc = 0
    /\ CrawlIdle("isValidUrl")
    /\ GenIdle
    /\ LimIdle

ApplyIsValidUrl == Returned("isValidUrl", 1, isValidUrl(LastValue))

SpecValid == InitValid /\ [][ApplyIsValidUrl]_vars

\* the labels of c end with all the labels of b
LabelsEndWith(c, b) ==
    /\ Len(b) <= Len(c)
    /\ \A k \in 1..Len(b) : c[Len(c) - Len(b) + k] = b[k]

\* C7: isValidUrl(url) is true exactly when the labels of the candidate's host
\* end with all the labels of the base host.
ValidIffLabelSuffix ==
    (pc = "isValidUrl" /\ fnPc = 1) =>
        (fnRet[1] <=> LabelsEndWith(Split(URLParse(fnArg).host, "."), Split(baseDomain, ".")))

\* a host that ends with the base host's text, not at a label boundary, was refused
TextSuffixRefused ==
    /\ pc = "isValidUrl"
    /\ fnPc = 1
    /\ ~fnRet[1]
    /\ EndsWith(URLParse(fnArg).host, baseDomain)

----------------------------------------------------------------------------
(* One extraction pass: processPage on the fetched seed page.              *)

MaxAnchors == 5

ExtractHrefs ==
    {"/a", "https://x.test/b", "https://other.test/c", "#frag", "mailto:x@y.com",
     "tel:123", "javascript:void(0)"}

\* the lists of at most n different hrefs
RECURSIVE AnchorLists(_)
AnchorLists(n) ==
    IF n = 0 THEN {<<>>}
    ELSE LET P == AnchorLists(n - 1)
         IN  P \cup UNION {{Append(l, h) : h \in ExtractHrefs \ {l[k] : k \in 1..Len(l)}} :
                             l \in {m \in P : Len(m) = n - 1}}

\* start() awaits its first wave, the seed page fetched (lines 273-282)
InitExtract ==
    /\ \E u \in StartUrls : Constructed(u)
    /\ \E h \in AnchorLists(MaxAnchors) :
         tasks = <<[st |-> "okDelay", url |-> baseUrl, hrefs |-> h, title |-> "T",
                    content |-> ""]>>
    /\ visited = {baseUrl}
    /\ queue = <<>>
    /\ referrerMap = <<>>
    /\ failedPages = <<>>
    /\ successfulPages = 0
    /\ running = 1
    /\ contentParts = <<>>
    /\ pc = "wave"
    /\ batch = <<baseUrl>>
    /\ dirExists \in BOOLEAN
    /\ files = <<>>
    /\ fetchLog = <<baseUrl>>
    /\ edges = {}
    /\ completed = <<>>
    /\ fnArg = ""
    /\ fnRet = <<>>
    /\ fnPc = 0
    /\ GenIdle
    /\ LimIdle

ExtractPass == \E i \in Slots : TimerFires(i)

SpecExtract == InitExtract /\ [][ExtractPass]_vars

\* the seed page's links were extracted and queued
SeedExtracted ==
    /\ Len(tasks) = 1
    /\ tasks[1].st = "mkdir"
    /\ tasks[1].url = baseUrl

ScenarioAnchors ==
    <<"/a", "https://x.test/b", "https://other.test/c", "#frag", "mailto:x@y.com">>

\* an http(s) URL without fragment whose host is the base host or under it
InScopePage(u) ==
    /\ StartsWith(u, "http://") \/ StartsWith(u, "https://")
    /\ ~Includes(u, "#")
    /\ LabelsEndWith(Split(URLParse(u).host, "."), Split(baseDomain, "."))

\* C8: with seed https://x.test/ and the anchors /a, https://x.test/b,
\* https://other.test/c, #frag, mailto:x@y.com, one extraction pass appends
\* exactly https://x.test/a and https://x.test/b to the queue; whatever the
\* anchors, nothing off-domain and no fragment-only, mailto:, tel: or
\* javascript: link enters the queue.
ExtractionQueuesInScopeLinks ==
    SeedExtracted =>
        /\ (startUrl = "https://x.test/" /\ tasks[1].hrefs = ScenarioAnchors)
               => queue = <<"https://x.test/a", "https://x.test/b">>
        /\ \A k \in 1..Len(queue) :
               /\ InScopePage(queue[k])
               /\ \E j \in 1..Len(tasks[1].hrefs) :
                      /\ ~StartsWith(tasks[1].hrefs[j], "#")
                      /\ ~StartsWith(tasks[1].hrefs[j], "mailto:")
                      /\ ~StartsWith(tasks[1].hrefs[j], "tel:")
                      /\ ~Includes(tasks[1].hrefs[j], "javascript:")
                      /\ queue[k] = normalizeUrl(tasks[1].hrefs[j])

\* the pass of the scenario has run
ScenarioExtracted ==
    /\ SeedExtracted
    /\ startUrl = "https://x.test/"
    /\ tasks[1].hrefs = ScenarioAnchors
    /\ Len(queue) = 2

----------------------------------------------------------------------------
(* normalizeUrl on absolute URLs                                           *)

MaxSegs == 3

NormStartUrls ==
    {"https://x.test/", "https://x.test/docs/", "https://x.test/docs/v1/",
     "https://x.test/docs/latest"}

NormSegs == {"docs", "v1", "latest", "a"}

\* the paths of at most n segments
RECURSIVE PathsUpTo(_)
PathsUpTo(n) ==
    IF n = 0 THEN {""}
    ELSE LET P == PathsUpTo(n - 1) IN P \cup {q \o "/" \o g : q \in P, g \in NormSegs}

AbsoluteHrefs ==
    {"https://" \o h \o q \o t \o f :
        h \in {"x.test", "other.test"}, q \in PathsUpTo(MaxSegs), t \in {"", "/"},
        f \in {"", "#f"}}

InitNorm ==
    /\ \E u \in NormStartUrls : Constructed(u)
    /\ fnArg \in AbsoluteHrefs
    /\ fnRet = <<>>
    /\ fnPc = 0
    /\ CrawlIdle("normalizeUrl")
    /\ GenIdle
    /\ LimIdle

ApplyNormalizeUrl == Returned("normalizeUrl", 2, normalizeUrl(LastValue))

SpecNorm == InitNorm /\ [][ApplyNormalizeUrl]_vars

\* C9: normalizeUrl is idempotent on absolute URLs:
\* normalizeUrl(normalizeUrl(href)) = normalizeUrl(href).
NormalizeIdempotent ==
    (pc = "normalizeUrl" /\ fnPc = 2) => fnRet[2] = fnRet[1]

----------------------------------------------------------------------------
(* cleanContent                                                            *)

MaxTextLen == 6

CleanChars == {" ", NL, "#", "*", "-", "a"}

InitClean ==
    /\ Constructed("https://x.test/")
    /\ fnArg \in StringsUpTo(CleanChars, MaxTextLen)
    /\ fnRet = <<>>
    /\ fnPc = 0
    /\ CrawlIdle("cleanContent")
    /\ GenIdle
    /\ LimIdle

ApplyCleanContent == Returned("cleanContent", 2, cleanContent(LastValue))

SpecClean == InitClean /\ [][ApplyCleanContent]_vars

\* C10: cleanContent is idempotent: cleanContent(cleanContent(x)) = cleanContent(x).
CleanIdempotent ==
    (pc = "cleanContent" /\ fnPc = 2) => fnRet[2] = fnRet[1]

\* a text whose cleaning removed a blank line and kept another was cleaned twice
CleanedTwice ==
    /\ pc = "cleanContent"
    /\ fnPc = 2
    /\ Includes(fnArg, NL \o NL)
    /\ Includes(fnRet[1], NL \o NL)
    /\ Len(fnRet[1]) < Len(Trim(fnArg))

\* a line of nothing but white space
IsBlank(line) == Trim(line) = ""

\* a line beginning with #, * or -
BeginsList(line) == Len(line) > 0 /\ Char(line, 1) \in {"#", "*", "-"}

\* C11: the output of cleanContent has no two consecutive blank lines, no blank
\* line directly before or after a line beginning with #, * or -, and (when it
\* is not the empty text) no blank first or last line.
CleanOutputShape ==
    (pc = "cleanContent" /\ fnPc >= 1) =>
        LET out == fnRet[1]
            L   == Split(out, NL)
        IN  /\ out # "" => ~IsBlank(L[1]) /\ ~IsBlank(L[Len(L)])
            /\ \A i \in 1..(Len(L) - 1) :
                   /\ ~(IsBlank(L[i]) /\ IsBlank(L[i + 1]))
                   /\ ~(IsBlank(L[i]) /\ BeginsList(L[i + 1]))
                   /\ ~(BeginsList(L[i]) /\ IsBlank(L[i + 1]))

\* a text with a blank line before a heading was cleaned, and the line is gone
BlankBeforeHeadingCleaned ==
    /\ pc = "cleanContent"
    /\ fnPc >= 1
    /\ Includes(fnArg, "a" \o NL \o NL \o "#")
    /\ Includes(fnRet[1], "a" \o NL \o "#")

----------------------------------------------------------------------------
(* generateLlmsFromExisting                                                *)

MaxFiles == 2

\* the markdown files an earlier crawl may have left under output/<domain>
GenMdPaths == {"a.md", "b/c.md", "b/d.md"}

GenTexts == {"", "text", "# H\n\nx"}

\* line 437: path.join("output", domain)
DomainPath(domain) == "output/" \o domain

\* the directory of a relative path, "" at the top
DirOf(rel) == LET i == IndexOf(rel, "/") IN IF i = 0 THEN "" ELSE SubSeq(rel, 1, i - 1)

\* the listings of a set of relative paths
Listings(S) ==
    { l \in [1..Cardinality(S) -> S] : \A i, j \in DOMAIN l : i # j => l[i] # l[j] }

\* lines 457-466: getFiles lists the .md files below dir, a directory's files
\* together, in the order readdir gives the entries
GetFilesResults(dir) ==
    LET rels == { SliceFrom(f, Len(dir) + 1) :
                    f \in { g \in DOMAIN files : StartsWith(g, dir \o "/") /\ EndsWith(g, ".md") } }
    IN  { [k \in DOMAIN l |-> dir \o "/" \o l[k]] :
            l \in { m \in Listings(rels) :
                      \A i, j, k \in DOMAIN m :
                          (i < j /\ j < k /\ DirOf(m[i]) # "" /\ DirOf(m[i]) = DirOf(m[k]))
                              => DirOf(m[j]) = DirOf(m[i]) } }

\* line 474: relativePath.replace(/\.md$/, "").replace(/\//g, " - ")
GenTitle(relativePath) ==
    LET noExt == IF EndsWith(relativePath, ".md")
                 THEN SubSeq(relativePath, 1, Len(relativePath) - 3)
                 ELSE relativePath
    IN  Join(Split(noExt, "/"), " - ")

\* line 468: getFiles(domainPath) returned
GetFiles ==
    /\ pc = "generate"
    /\ dirExists
    /\ genFiles' \in GetFilesResults(DomainPath(fnArg))
    /\ pc' = "genLoop"
    /\ UNCHANGED <<ctxVars, fnVars, limVars, visited, queue, referrerMap, failedPages,
                   successfulPages, running, contentParts, batch, tasks, dirExists,
                   files, fetchLog, edges, completed, genParts, genIndex>>

\* line 458 threw ENOENT: the catch of lines 491-498 throws it again
GetFilesFails ==
    /\ pc = "generate"
    /\ ~dirExists
    /\ pc' = "aborted"
    /\ UNCHANGED <<ctxVars, fnVars, limVars, genVars, visited, queue, referrerMap,
                   failedPages, successfulPages, running, contentParts, batch, tasks,
                   dirExists, files, fetchLog, edges, completed>>

\* lines 471-480: one turn of the loop over files
AddSection ==
    /\ pc = "genLoop"
    /\ genIndex < Len(genFiles)
    /\ LET file         == genFiles[genIndex + 1]
           content      == files[file]
           relativePath == SliceFrom(file, Len(DomainPath(fnArg)) + 1)
           title        == GenTitle(relativePath)
           section      == "# " \o title \o NL \o cleanContent(content)
       IN  genParts' = (IF genIndex > 0 THEN Append(genParts, "") ELSE genParts)
                           \o <<section>>
    /\ genIndex' = genIndex + 1
    /\ UNCHANGED <<ctxVars, fnVars, limVars, crawlVars, genFiles>>

\* line 482
GenOutputPath == DomainPath(fnArg) \o "/llms-full.txt"

\* lines 482-484: the parts are joined and written
WriteLlms ==
    /\ pc = "genLoop"
    /\ genIndex = Len(genFiles)
    /\ files' = [f \in DOMAIN files \cup {GenOutputPath} |->
                    IF f = GenOutputPath THEN Join(genParts, NL) ELSE files[f]]
    /\ pc' = "genDone"
    /\ UNCHANGED <<ctxVars, fnVars, limVars, genVars, visited, queue, referrerMap,
                   failedPages, successfulPages, running, contentParts, batch, tasks,
                   dirExists, fetchLog, edges, completed>>

\* the file systems `generate x.test` is run on: no output/x.test, or one with
\* the corpus of the crawl and at most MaxFiles markdown files
GenFileSystems ==
    { [f \in {"output/x.test/" \o r : r \in S} \cup {"output/x.test/llms-full.txt"} |->
          IF f = "output/x.test/llms-full.txt" THEN "old" ELSE t[SliceFrom(f, 14)]] :
        S \in { T \in SUBSET GenMdPaths : Cardinality(T) <= MaxFiles },
        t \in [GenMdPaths -> GenTexts] }

\* `generate x.test`: new SiteIndexer("", true) (line 523) leaves the URL
\* fields empty
InitGenerate ==
    /\ baseUrl = ""
    /\ baseDomain = ""
    /\ basePath = ""
    /\ startUrl = ""
    /\ visited = {}
    /\ queue = <<>>
    /\ referrerMap = <<>>
    /\ failedPages = <<>>
    /\ successfulPages = 0
    /\ running = 0
    /\ contentParts = <<>>
    /\ pc = "generate"
    /\ batch = <<>>
    /\ tasks = <<>>
    /\ \/ dirExists = FALSE /\ files = <<>>
       \/ dirExists = TRUE /\ files \in GenFileSystems
    /\ fetchLog = <<>>
    /\ edges = {}
    /\ completed = <<>>
    /\ fnArg = "x.test"
    /\ fnRet = <<>>
    /\ fnPc = 0
    /\ GenIdle
    /\ LimIdle

NextGenerate ==
    \/ GetFiles
    \/ GetFilesFails
    \/ AddSection
    \/ WriteLlms

SpecGenerate == InitGenerate /\ [][NextGenerate]_vars

\* the title the corpus gives a file: its relative path without the .md
\* suffix, each separator replaced by " - "
SectionTitle(file) ==
    LET rel == SliceFrom(file, Len(DomainPath(fnArg)) + 1)
    IN  Join(Split(SubSeq(rel, 1, Len(rel) - 3), "/"), " - ")

\* the lines of the corpus written by generate
GenLines == Split(files[GenOutputPath], NL)

\* the lines that are the heading of the k-th file
HeadingLines(k) ==
    { i \in 1..Len(GenLines) : GenLines[i] = "# " \o SectionTitle(genFiles[k]) }

\* C12: the corpus rebuilt by generate has one section per file, titled from
\* the file's relative path, with no blank line before the first section and
\* exactly one blank line between consecutive sections, also for files whose
\* cleaned content is empty.
GenerateSections ==
    (pc = "genDone" /\ Len(genFiles) > 0) =>
        /\ \A k \in 1..Len(genFiles) : Cardinality(HeadingLines(k)) = 1
        /\ HeadingLines(1) = {1}
        /\ \A k \in 2..Len(genFiles) : \A i \in HeadingLines(k) :
               /\ \A j \in HeadingLines(k - 1) : j < i
               /\ GenLines[i - 1] = ""
               /\ GenLines[i - 2] # ""

----------------------------------------------------------------------------
(* Properties of the crawls of s.test and w.test.                          *)

\* writeFile (line 377) has been called for the task
WriteCalled(t) == t.st \in {"writing", "page"}

\* C13: two distinct URLs dispatched in a run never write to the same output
\* path, in particular not two tasks of the same wave.
OutputPathsDistinct ==
    \A i, j \in Slots :
        (WriteCalled(tasks[i]) /\ WriteCalled(tasks[j]) /\ tasks[i].url # tasks[j].url)
            => getOutputFilePath(tasks[i].url) # getOutputFilePath(tasks[j].url)

----------------------------------------------------------------------------
(* Limiter.add, called by any callers at any times.                        *)

MaxCallers == 3

MaxLimit == 2

CallerIds == 1..Len(callers)

\* an add that takes the slot whatever running is
MayEnterAlways(run, cap) == TRUE

\* line 47: the while loop is left when running < maxConcurrent
MayEnter(run, cap) == ~(run >= cap)

\* an add whose slot is not given back when fn throws
AfterThrowKept(run) == run

\* line 54 on the way out of a call whose fn threw
AfterThrow(run) == run - 1

\* line 54 on the way out of a call whose fn returned
AfterReturn(run) == run - 1

\* what the Limiter specifications leave alone
limFrame == <<ctxVars, fnVars, genVars, visited, queue, referrerMap, failedPages,
              successfulPages, contentParts, pc, batch, tasks, dirExists, files,
              fetchLog, edges, completed, limMax>>

\* lines 46-52: add(fn) is called and runs to its first await, which is the
\* timer of line 48 or fn()
AddCalled(c) ==
    /\ pc = "limiter"
    /\ callers[c] = "idle"
    /\ IF MayEnter(running, limMax)
       THEN /\ running' = running + 1
            /\ callers' = [callers EXCEPT ![c] = "inFn"]
            /\ UNCHANGED waitLog
       ELSE /\ callers' = [callers EXCEPT ![c] = "waiting"]
            /\ waitLog' = Append(waitLog, c)
            /\ UNCHANGED running
    /\ UNCHANGED limFrame

\* lines 47-52: the timer of a waiting call fired and the loop found a free
\* slot (when it finds none the call waits for its next timer and nothing
\* changes)
WakesUp(c) ==
    /\ pc = "limiter"
    /\ callers[c] = "waiting"
    /\ MayEnter(running, limMax)
    /\ running' = running + 1
    /\ callers' = [callers EXCEPT ![c] = "inFn"]
    /\ UNCHANGED <<limFrame, waitLog>>

\* lines 52-59: fn() resolved; Limiter.queue is always empty, nothing pushes
\* to it
FnReturns(c) ==
    /\ pc = "limiter"
    /\ callers[c] = "inFn"
    /\ running' = AfterReturn(running)
    /\ callers' = [callers EXCEPT ![c] = "returned"]
    /\ UNCHANGED <<limFrame, waitLog>>

\* lines 52-59: fn() rejected
FnThrows(c) ==
    /\ pc = "limiter"
    /\ callers[c] = "inFn"
    /\ running' = AfterThrow(running)
    /\ callers' = [callers EXCEPT ![c] = "threw"]
    /\ UNCHANGED <<limFrame, waitLog>>

\* new Limiter(n) with MaxCallers calls of add to come
InitLimiter ==
    /\ Constructed("https://x.test/")
    /\ CrawlIdle("limiter")
    /\ GenIdle
    /\ fnArg = ""
    /\ fnRet = <<>>
    /\ fnPc = 0
    /\ limMax \in 1..MaxLimit
    /\ callers = [c \in 1..MaxCallers |-> "idle"]
    /\ waitLog = <<>>

NextLimiter ==
    \/ \E c \in CallerIds : AddCalled(c)
    \/ \E c \in CallerIds : WakesUp(c)
    \/ \E c \in CallerIds : FnReturns(c)
    \/ \E c \in CallerIds : FnThrows(c)

SpecLimiter == InitLimiter /\ [][NextLimiter]_vars

\* C14: the Limiter admits waiting callers in FIFO order: of the calls that
\* wait, none that began to wait later is admitted while one that began
\* earlier still waits.
LimiterFifo ==
    \A i, j \in 1..Len(waitLog) :
        (i < j /\ callers[waitLog[i]] = "waiting") => callers[waitLog[j]] = "waiting"

\* the calls whose fn is in progress
InProgress == {c \in CallerIds : callers[c] = "inFn"}

\* C15: every slot taken by a call of add is given back by that call exactly
\* once, on return and on throw: running counts the calls whose fn is in
\* progress, and is 0 when there is none.
SlotsReleased ==
    pc = "limiter" =>
        /\ running = Cardinality(InProgress)
        /\ InProgress = {} => running = 0

\* all calls are over, one by a throw after it had waited, and no slot is held
AllCallsOver ==
    /\ pc = "limiter"
    /\ \A c \in CallerIds : callers[c] \in {"returned", "threw"}
    /\ \E c \in CallerIds : callers[c] = "threw" /\ \E k \in 1..Len(waitLog) : waitLog[k] = c
    /\ \E c \in CallerIds : callers[c] = "returned"
    /\ running = 0

\* C16: 0 <= running <= maxConcurrent in every reachable state, for any number
\* of callers of add and any order of their timers.
RunningWithinLimit ==
    pc = "limiter" => (0 <= running /\ running <= limMax)

\* the Limiter is full with a call admitted after waiting, and another waits
FullAfterWakeUp ==
    /\ pc = "limiter"
    /\ running = limMax
    /\ \E k \in 1..Len(waitLog) : callers[waitLog[k]] = "inFn"
    /\ \E c \in CallerIds : callers[c] = "waiting"

----------------------------------------------------------------------------
(* Properties of the waves of start().                                     *)

\* the task holds a slot of the Limiter
HoldsSlot(t) == t.st \in {"fetching", "okDelay", "failDelay", "mkdir", "writing"}

\* C17: waves are separated by a barrier. A batch is removed from the queue
\* only when every task of the batch before it has completed, so a fetch that
\* never completes keeps every later batch in the queue; the batch is at most
\* 5 entries from the front of the queue; and every slot held is held by a
\* task of the current batch, so tasks of two waves never run together.
WaveBarrier ==
    [][ /\ Len(queue') < Len(queue) =>
              /\ \A i \in Slots : ~HoldsSlot(tasks[i]) /\ tasks[i].st # "waiting"
              /\ Len(batch') <= 5
              /\ batch' \o queue' = queue
              /\ Len(batch') = 5 \/ queue' = <<>>
        /\ Len(tasks') = Len(batch')
        /\ \A i \in 1..Len(tasks') : tasks'[i].url = batch'[i]
        /\ running' = Cardinality({i \in 1..Len(tasks') : HoldsSlot(tasks'[i])})
      ]_vars

\* the third wave runs: the first took the start URL, the second the first 5
\* of the links of the home page
ThirdWaveRuns ==
    /\ pc = "wave"
    /\ Len(fetchLog) > 1 + BatchCap
    /\ \E i \in Slots : HoldsSlot(tasks[i])

\* the while loop of start() is over
LoopEnded == pc \in {"writeCorpus", "writeFailedUrls", "done"} /\ queue = <<>>

\* C18: on a finite site where every fetch eventually completes, the crawl
\* loop of start() eventually ends with an empty queue, unless a file write
\* failed.
CrawlTerminates == <>(LoopEnded \/ pc = "aborted")

\* the loop ended after a URL had been queued by two pages and dropped once
LoopEndedAfterDuplicate ==
    /\ pc = "writeCorpus"
    /\ queue = <<>>
    /\ \E e1, e2 \in edges : e1[2] = e2[2] /\ e1[1] # e2[1] /\ e1[2] \in visited
    /\ Len(fetchLog) = Cardinality(visited)

----------------------------------------------------------------------------
(* Properties of the referrer map, checked under Spec.                     *)

\* the referrer the map holds for a URL, "Initial URL" when it holds none
ReferrerOf(map, u) == IF u \in DOMAIN map THEN map[u] ELSE "Initial URL"

\* C19: the referrer map is insert-only and first-wins: an entry is never
\* changed or removed, a new entry names a page on which the link was found,
\* and a FailureRecord carries the referrer the map holds for its URL, which is
\* "Initial URL" only for a URL that no page has linked to.
ReferrerFirstWins ==
    [][ /\ \A u \in DOMAIN referrerMap :
              u \in DOMAIN referrerMap' /\ referrerMap'[u] = referrerMap[u]
        /\ \A u \in DOMAIN referrerMap' \ DOMAIN referrerMap :
              /\ <<referrerMap'[u], u>> \in edges'
              /\ ~\E e \in edges : e[2] = u
        /\ \A k \in (Len(failedPages) + 1)..Len(failedPages') :
              /\ failedPages'[k].referrer = ReferrerOf(referrerMap, failedPages'[k].url)
              /\ failedPages'[k].referrer = "Initial URL" =>
                     ~\E e \in edges : e[2] = failedPages'[k].url
      ]_vars

\* a page that two pages link to failed, and its record names the first of them
FailedWithFirstReferrer ==
    \E k \in 1..Len(failedPages) :
        /\ failedPages[k].referrer # "Initial URL"
        /\ \E e \in edges : e[2] = failedPages[k].url /\ e[1] # failedPages[k].referrer
        /\ <<failedPages[k].referrer, failedPages[k].url>> \in edges

\* what a step appended to the queue
Appended == SubSeq(queue', Len(queue) + 1, Len(queue'))

\* C20 as stated: a link is appended to the queue only when the referrer map
\* does not hold it yet.
EnqueueOnlyUnrecorded ==
    [][ \A k \in 1..Len(Appended) : Appended[k] \notin DOMAIN referrerMap ]_vars

\* C20, amended: the link extraction of a page appends to the queue every
\* in-scope link of the page that is not visited, each once, whether the
\* referrer map holds it or not; only the referrer is recorded conditionally.
EnqueueAllExtracted ==
    [][ \A i \in Slots :
          (tasks[i].st = "okDelay" /\ i \in DOMAIN tasks' /\ tasks'[i].st = "mkdir") =>
              /\ queue' = queue \o Appended
              /\ {Appended[k] : k \in 1..Len(Appended)}
                     = {n \in InScopeLinks(tasks[i].hrefs) : n \notin visited}
              /\ \A j, k \in 1..Len(Appended) : j # k => Appended[j] # Appended[k]
              /\ \A k \in 1..Len(Appended) :
                     referrerMap'[Appended[k]] =
                         IF Appended[k] \in DOMAIN referrerMap
                         THEN referrerMap[Appended[k]] ELSE tasks[i].url
      ]_vars

\* a link recorded by an earlier page was appended again: the queue holds it twice
LinkQueuedTwice ==
    \E j, k \in 1..Len(queue) :
        j < k /\ queue[j] = queue[k] /\ queue[j] \in DOMAIN referrerMap

----------------------------------------------------------------------------
(* Properties of the queue and of the outcomes, checked under Spec.        *)

\* C21: every URL in the queue, and every URL of a drained batch, passes
\* isValidUrl, and a URL appended by link extraction was not in visited when
\* it was extracted.
QueueHoldsValidUnvisited ==
    [][ /\ \A k \in 1..Len(queue') : isValidUrl(queue'[k])
        /\ \A k \in 1..Len(batch') : isValidUrl(batch'[k])
        /\ \A k \in 1..Len(Appended) : Appended[k] \notin visited
      ]_vars

\* a page with a link out of scope and a link already visited was extracted,
\* and the queue holds its one other link
MixedPageExtracted ==
    \E i \in Slots :
        /\ tasks[i].st = "mkdir"
        /\ \E k \in 1..Len(tasks[i].hrefs) : tasks[i].hrefs[k] = "https://other.test/c"
        /\ \E n \in InScopeLinks(tasks[i].hrefs) :
               n \in visited /\ \A k \in 1..Len(queue) : queue[k] # n
        /\ \E k \in 1..Len(queue) : <<tasks[i].url, queue[k]>> \in edges

\* how many corpus blocks and FailureRecords there are for a URL
BlocksOf(parts, u) == Cardinality({k \in 1..Len(parts) : parts[k].url = u})

RecordsOf(failed, u) == Cardinality({k \in 1..Len(failed) : failed[k].url = u})

\* C22: at the end of every wave (the results are collected, no file write
\* failed) each URL in visited has exactly one corpus block or exactly one
\* FailureRecord, never both, and visited.size = successfulPages +
\* failedPages.length.
OneOutcomePerUrl ==
    [][ (pc = "wave" /\ AllFulfilled(tasks)) =>
            /\ \A u \in visited :
                   BlocksOf(contentParts', u) + RecordsOf(failedPages', u) = 1
            /\ Cardinality(visited) = successfulPages' + Len(failedPages')
      ]_vars

\* the loop ended after pages that succeeded, a page that failed and a
\* duplicate entry that was dropped
MixedOutcomes ==
    /\ pc = "writeCorpus"
    /\ successfulPages >= 2
    /\ Len(failedPages) >= 1
    /\ Cardinality(visited) = successfulPages + Len(failedPages)
    /\ \E e1, e2 \in edges : e1[2] = e2[2] /\ e1[1] # e2[1] /\ RecordsOf(failedPages, e1[2]) = 1

Dispatched == {fetchLog[k] : k \in 1..Len(fetchLog)} \cup {batch[k] : k \in 1..Len(batch)}

\* C24: while a wave runs every URL of its batch is in visited, from the
\* dispatch on and so before any of its tasks extracts links, and the links a
\* task appends to the queue are never a URL of this batch or of an earlier
\* one, in whatever order the fetches complete.
BatchVisitedBeforeExtraction ==
    [][ /\ pc' = "wave" => \A k \in 1..Len(batch') : batch'[k] \in visited'
        /\ \A i \in Slots :
              tasks[i].st = "okDelay" => \A k \in 1..Len(batch) : batch[k] \in visited
        /\ \A k \in 1..Len(Appended) : Appended[k] \notin Dispatched
      ]_vars

\* a page that links to a page of its own wave was extracted while that other
\* page was still being fetched, and the link was not queued
SiblingLinkDropped ==
    \E i, j \in Slots :
        /\ i # j
        /\ tasks[i].st = "mkdir"
        /\ tasks[j].st = "fetching"
        /\ tasks[j].url \in InScopeLinks(tasks[i].hrefs)
        /\ \A k \in 1..Len(queue) : queue[k] # tasks[j].url

(* The Limiter during a crawl, checked under SpecWide, where the home page *)
(* links to more pages than one batch holds.                              *)

InFlight == {i \in Slots : tasks[i].st \in {"fetching", "failDelay", "okDelay"}}

\* C25: during a crawl no caller of limiter.add is suspended: a batch holds at
\* most maxConcurrent entries and every wave is dispatched with running = 0, so
\* each call finds running < maxConcurrent and the wait loop is never entered.
LimiterNeverSuspends ==
    [][ /\ \A i \in 1..Len(tasks') : tasks'[i].st # "waiting"
        /\ Len(batch') <= maxConcurrent
        /\ (pc' = "wave" /\ batch' # batch) => running = 0
        /\ running' <= maxConcurrent
      ]_vars

\* a full batch was dispatched after an earlier wave: five calls of limiter.add
\* are running at once and one more link is still queued
FullBatchRunning ==
    /\ pc = "wave"
    /\ Cardinality(InFlight) = maxConcurrent
    /\ running = maxConcurrent
    /\ Len(fetchLog) > maxConcurrent
    /\ Len(queue) >= 1

====
